---- MODULE Spec2Model ----
(***************************************************************************)
(* TCP segment model of netstack3 (core/base/src/tcp/segment.rs): the      *)
(* truncating constructor with_data_options and the receive-window trim    *)
(* overlap.  Sequence numbers are SeqBits wide instead of 32 bits wide;    *)
(* every constant of the source that is a power of two of the sequence     *)
(* width is scaled with it (2^31 is 2^(SeqBits-1), 2^30 is 2^(SeqBits-2)). *)
(***************************************************************************)
EXTENDS Integers, Naturals, Sequences, FiniteSets, TLC

\* ------------------------------------------------------------------ bounds
\* Width of a sequence number, in bits (32 in the source).
SeqBits == 4
\* Payloads handed to the constructor are 0 .. MAX_PAYLOAD_AND_CONTROL_LEN + ExtraData bytes long.
ExtraData == 2
\* Option lists handed to Options::from_iter have at most MaxOptions entries.
MaxOptions == 3
\* The body of a wire segment has at most MaxBody bytes (a link MTU, far below the
\* truncation threshold).
MaxBody == 2

\* --------------------------------------------------------------- constants
\* 2^32 in the source: the size of the cyclic sequence space.
SeqMod == 2 ^ SeqBits
\* segment.rs:86  pub const MAX_PAYLOAD_AND_CONTROL_LEN: usize = 1 << 31
MAX_PAYLOAD_AND_CONTROL_LEN == 2 ^ (SeqBits - 1)
\* segment.rs:88
MAX_PAYLOAD_AND_CONTROL_LEN_U32 == MAX_PAYLOAD_AND_CONTROL_LEN
\* WindowSize::MAX = 2^30 - 1 (spec section 3)
WindowSize_MAX == 2 ^ (SeqBits - 2) - 1
\* WindowSize::ZERO
WindowSize_ZERO == 0
\* u32::MAX
U32_MAX == SeqMod - 1

\* Option<T> over numbers: None is the empty tuple, Some(v) the tuple <<v>>
None == <<>>
Some(v) == <<v>>
\* enum Control; Option<Control>::None is the string "None"
NoControl == "None"
Control == {"SYN", "FIN", "RST"}
OptControl == Control \cup {NoControl}

\* ------------------------------------------------------ sequence arithmetic
\* impl Add<u32> for SeqNum, impl Add<WindowSize> for SeqNum: wrapping add.
SeqAdd(a, n) == (a + n) % SeqMod
\* impl Sub for SeqNum: the wrapping difference reinterpreted as signed.
SeqSub(a, b) ==
    LET d == (a - b + SeqMod) % SeqMod
    IN  IF d >= SeqMod \div 2 THEN d - SeqMod ELSE d
\* SeqNum::before
before(a, b) == SeqSub(a, b) < 0
\* SeqNum::after
after(a, b) == SeqSub(a, b) > 0
\* Control::has_sequence_no, applied under Option::map(..).unwrap_or(false)
has_sequence_no(control) == control \in {"SYN", "FIN"}

\* ------------------------------------------------------------------ payload
\* A borrowed byte slice &[u8] is the window [lo, hi) of the caller's buffer.
Payload_new(n) == [lo |-> 0, hi |-> n]
\* Payload::len
Payload_len(p) == p.hi - p.lo
\* Does &self[start..end] stay in bounds?
slice_ok(p, start, end) == start <= end /\ end <= Payload_len(p)
\* impl Payload for &[u8] :: slice, for a range that is in bounds
slice(p, start, end) == [lo |-> p.lo + start, hi |-> p.lo + end]

\* A panic: a failed unwrap, a checked-arithmetic overflow, or an out-of-range slice
Panic == [kind |-> "Panic"]

\* Payload::slice for &[u8] that clamps the range to the payload instead of panicking
Bytes_slice_clamps(p, start, end) ==
    LET e == IF end > Payload_len(p) THEN Payload_len(p) ELSE end
        b == IF start > e THEN e ELSE start
    IN  [kind |-> "Ok", data |-> slice(p, b, e)]

\* impl Payload for &[u8] :: slice, the whole call: &self[start..end] panics when the
\* range is inverted or ends beyond the slice; usize::try_from of a u32 cannot fail
Bytes_slice(p, start, end) ==
    IF slice_ok(p, start, end) THEN [kind |-> "Ok", data |-> slice(p, start, end)]
    ELSE Panic

\* impl Payload for () :: slice: the unit payload has length 0 and is the empty window
Unit_slice(start, end) ==
    IF start # 0 THEN Panic
    ELSE IF end # 0 THEN Panic
    ELSE [kind |-> "Ok", data |-> Payload_new(0)]

\* Contents::len that counts one sequence number for every control, RST too
Contents_len_counts_rst(contents) ==
    Payload_len(contents.data) + (IF contents.control # "None" THEN 1 ELSE 0)

\* ----------------------------------------------------------------- contents
\* Contents::len
Contents_len(contents) ==
    Payload_len(contents.data) + (IF has_sequence_no(contents.control) THEN 1 ELSE 0)

\* with_data_options that keeps FIN on a truncated segment
with_data_options_keep_fin(seq, ack, control, wnd, data, options) ==
    LET has_control_len == has_sequence_no(control)
        budget == MAX_PAYLOAD_AND_CONTROL_LEN - (IF has_control_len THEN 1 ELSE 0)
        discarded_len == IF Payload_len(data) > budget THEN Payload_len(data) - budget ELSE 0
        contents ==
            IF discarded_len > 0
            THEN LET control_len == IF control = "FIN" THEN 0
                                    ELSE IF has_control_len THEN 1 ELSE 0
                 IN  [control |-> control,
                      data |-> slice(data, 0, MAX_PAYLOAD_AND_CONTROL_LEN_U32 - control_len)]
            ELSE [control |-> control, data |-> data]
    IN  [seg |-> [seq |-> seq, ack |-> ack, wnd |-> wnd, contents |-> contents,
                  options |-> options],
         discarded |-> discarded_len]

\* with_data_options that counts the discarded bytes but leaves the data whole
with_data_options_no_truncate(seq, ack, control, wnd, data, options) ==
    LET has_control_len == has_sequence_no(control)
        budget == MAX_PAYLOAD_AND_CONTROL_LEN - (IF has_control_len THEN 1 ELSE 0)
        discarded_len == IF Payload_len(data) > budget THEN Payload_len(data) - budget ELSE 0
    IN  [seg |-> [seq |-> seq, ack |-> ack, wnd |-> wnd,
                  contents |-> [control |-> control, data |-> data],
                  options |-> options],
         discarded |-> discarded_len]

\* with_data_options that truncates to the full budget whatever the control
with_data_options_ignore_control_len(seq, ack, control, wnd, data, options) ==
    LET has_control_len == has_sequence_no(control)
        budget == MAX_PAYLOAD_AND_CONTROL_LEN - (IF has_control_len THEN 1 ELSE 0)
        discarded_len == IF Payload_len(data) > budget THEN Payload_len(data) - budget ELSE 0
        contents ==
            IF discarded_len > 0
            THEN [control |-> IF control = "FIN" THEN NoControl ELSE control,
                  data |-> slice(data, 0, MAX_PAYLOAD_AND_CONTROL_LEN_U32)]
            ELSE [control |-> control, data |-> data]
    IN  [seg |-> [seq |-> seq, ack |-> ack, wnd |-> wnd, contents |-> contents,
                  options |-> options],
         discarded |-> discarded_len]

\* with_data_options that drops FIN but still truncates to the budget computed with it
with_data_options_fin_budget(seq, ack, control, wnd, data, options) ==
    LET has_control_len == has_sequence_no(control)
        budget == MAX_PAYLOAD_AND_CONTROL_LEN - (IF has_control_len THEN 1 ELSE 0)
        discarded_len == IF Payload_len(data) > budget THEN Payload_len(data) - budget ELSE 0
        contents ==
            IF discarded_len > 0
            THEN [control |-> IF control = "FIN" THEN NoControl ELSE control,
                  data |-> slice(data, 0, budget)]
            ELSE [control |-> control, data |-> data]
    IN  [seg |-> [seq |-> seq, ack |-> ack, wnd |-> wnd, contents |-> contents,
                  options |-> options],
         discarded |-> discarded_len]

\* with_data_options that counts only the payload bytes it removed
with_data_options_counts_bytes(seq, ack, control, wnd, data, options) ==
    LET has_control_len == has_sequence_no(control)
        budget == MAX_PAYLOAD_AND_CONTROL_LEN - (IF has_control_len THEN 1 ELSE 0)
        discarded_len == IF Payload_len(data) > budget THEN Payload_len(data) - budget ELSE 0
        contents ==
            IF discarded_len > 0
            THEN LET control_len == IF control = "FIN" THEN 0
                                    ELSE IF has_control_len THEN 1 ELSE 0
                 IN  [control |-> IF control = "FIN" THEN NoControl ELSE control,
                      data |-> slice(data, 0, MAX_PAYLOAD_AND_CONTROL_LEN_U32 - control_len)]
            ELSE [control |-> control, data |-> data]
    IN  [seg |-> [seq |-> seq, ack |-> ack, wnd |-> wnd, contents |-> contents,
                  options |-> options],
         discarded |-> Payload_len(data) - Payload_len(contents.data)]

\* with_data_options that builds the segment with default options, as with_data does
with_data_options_default_options(seq, ack, control, wnd, data, options) ==
    LET has_control_len == has_sequence_no(control)
        budget == MAX_PAYLOAD_AND_CONTROL_LEN - (IF has_control_len THEN 1 ELSE 0)
        discarded_len == IF Payload_len(data) > budget THEN Payload_len(data) - budget ELSE 0
        contents ==
            IF discarded_len > 0
            THEN LET control_len == IF control = "FIN" THEN 0
                                    ELSE IF has_control_len THEN 1 ELSE 0
                 IN  [control |-> IF control = "FIN" THEN NoControl ELSE control,
                      data |-> slice(data, 0, MAX_PAYLOAD_AND_CONTROL_LEN_U32 - control_len)]
            ELSE [control |-> control, data |-> data]
    IN  [seg |-> [seq |-> seq, ack |-> ack, wnd |-> wnd, contents |-> contents,
                  options |-> [mss |-> None, window_scale |-> None]],
         discarded |-> discarded_len]

\* Segment::with_data_options: the pair (segment, discarded_len)
with_data_options(seq, ack, control, wnd, data, options) ==
    LET has_control_len == has_sequence_no(control)
        budget == MAX_PAYLOAD_AND_CONTROL_LEN - (IF has_control_len THEN 1 ELSE 0)
        \* usize::saturating_sub
        discarded_len == IF Payload_len(data) > budget THEN Payload_len(data) - budget ELSE 0
        contents ==
            IF discarded_len > 0
            THEN LET new_control == IF control = "FIN" THEN NoControl ELSE control
                     control_len == IF control = "FIN" THEN 0
                                    ELSE IF has_control_len THEN 1 ELSE 0
                     end == MAX_PAYLOAD_AND_CONTROL_LEN_U32 - control_len
                 IN  [control |-> new_control,
                      \* data.slice(0..end); out of range it panics and no segment exists
                      data |-> IF slice_ok(data, 0, end) THEN slice(data, 0, end) ELSE Panic]
            ELSE [control |-> control, data |-> data]
    IN  [seg |-> [seq |-> seq, ack |-> ack, wnd |-> wnd, contents |-> contents,
                  options |-> options],
         discarded |-> discarded_len]

\* The acceptability test with the fourth row of RFC 793 taken literally
\* (RCV.NXT =< SEG.SEQ+SEG.LEN-1 < RCV.NXT+RCV.WND)
overlap_test_rfc_literal(seq, len, rnxt, rwnd) ==
    IF len = 0 /\ rwnd = WindowSize_ZERO THEN seq = rnxt
    ELSE IF len = 0 THEN ~after(rnxt, seq) /\ before(seq, SeqAdd(rnxt, rwnd))
    ELSE IF rwnd = WindowSize_ZERO THEN FALSE
    ELSE \/ (~after(rnxt, seq) /\ before(seq, SeqAdd(rnxt, rwnd)))
         \/ (/\ ~before(SeqAdd(seq, len - 1), rnxt)
             /\ before(SeqAdd(seq, len - 1), SeqAdd(rnxt, rwnd)))

\* The acceptability test that also accepts a segment covering the whole window
overlap_test_accepts_cover(seq, len, rnxt, rwnd) ==
    IF len = 0 /\ rwnd = WindowSize_ZERO THEN seq = rnxt
    ELSE IF len = 0 THEN ~after(rnxt, seq) /\ before(seq, SeqAdd(rnxt, rwnd))
    ELSE IF rwnd = WindowSize_ZERO THEN FALSE
    ELSE \/ (~after(rnxt, seq) /\ before(seq, SeqAdd(rnxt, rwnd)))
         \/ (~before(SeqAdd(seq, len), rnxt) /\ ~after(SeqAdd(seq, len), SeqAdd(rnxt, rwnd)))
         \/ (before(seq, rnxt) /\ after(SeqAdd(seq, len), SeqAdd(rnxt, rwnd)))

\* The acceptability test where a zero-length segment at the left window edge is rejected
overlap_test_strict_left(seq, len, rnxt, rwnd) ==
    IF len = 0 /\ rwnd = WindowSize_ZERO THEN seq = rnxt
    ELSE IF len = 0 THEN after(seq, rnxt) /\ before(seq, SeqAdd(rnxt, rwnd))
    ELSE IF rwnd = WindowSize_ZERO THEN FALSE
    ELSE \/ (~after(rnxt, seq) /\ before(seq, SeqAdd(rnxt, rwnd)))
         \/ (~before(SeqAdd(seq, len), rnxt) /\ ~after(SeqAdd(seq, len), SeqAdd(rnxt, rwnd)))

\* Segment::overlap, the acceptability test (the value of `overlap`)
overlap_test(seq, len, rnxt, rwnd) ==
    IF len = 0 /\ rwnd = WindowSize_ZERO THEN seq = rnxt
    ELSE IF len = 0 THEN ~after(rnxt, seq) /\ before(seq, SeqAdd(rnxt, rwnd))
    ELSE IF rwnd = WindowSize_ZERO THEN FALSE
    ELSE \/ (~after(rnxt, seq) /\ before(seq, SeqAdd(rnxt, rwnd)))
         \/ (~before(SeqAdd(seq, len), rnxt) /\ ~after(SeqAdd(seq, len), SeqAdd(rnxt, rwnd)))

\* cmp that compares the raw sequence numbers as unsigned integers
cmp_raw(lhs, rhs) ==
    IF lhs < rhs THEN "Less" ELSE IF lhs = rhs THEN "Equal" ELSE "Greater"

\* cmp closure of overlap: (*lhs - *rhs).cmp(&0)
cmp(lhs, rhs) ==
    LET d == SeqSub(lhs, rhs)
    IN  IF d < 0 THEN "Less" ELSE IF d = 0 THEN "Equal" ELSE "Greater"
\* core::cmp::max_by and min_by.  cmp is not antisymmetric for two sequence numbers half
\* the space apart (both orders compare Less), and releases of core differ in which order
\* they evaluate; the two give the same overlap, since on an accepted segment they differ
\* only in which of the two unwraps panics.
\* core::cmp::max_by: the second argument unless the first is greater
max_by(v1, v2) == IF cmp(v1, v2) = "Greater" THEN v1 ELSE v2
\* min_by under the naive unsigned order of the raw sequence numbers
min_by_unsigned(v1, v2) == IF v1 > v2 THEN v2 ELSE v1
\* core::cmp::min_by: the first argument unless it is greater
min_by(v1, v2) == IF cmp(v1, v2) = "Greater" THEN v2 ELSE v1

\* overlap that rebuilds the trimmed segment without the acknowledgement number
overlap_slice_drops_ack(self, new_seq, new_control, start, end) ==
    IF start < 0 \/ end < 0 \/ end > U32_MAX THEN Panic
    ELSE IF ~slice_ok(self.contents.data, start, end) THEN Panic
    ELSE [kind |-> "Some",
          seg |-> [seq |-> new_seq, ack |-> None, wnd |-> self.wnd,
                   contents |-> [control |-> new_control,
                                 data |-> slice(self.contents.data, start, end)],
                   options |-> self.options]]

\* data.slice(start..end) on the segment's data, with the control that goes with it.
\* A negative bound is a u32 subtraction that underflowed: a panic where overflow
\* is checked, and where it wraps the bound lies beyond every payload, so that
\* slice panics.
overlap_slice(self, new_seq, new_control, start, end) ==
    IF start < 0 \/ end < 0 \/ end > U32_MAX THEN Panic
    ELSE IF ~slice_ok(self.contents.data, start, end) THEN Panic
    ELSE [kind |-> "Some",
          seg |-> [seq |-> new_seq, ack |-> self.ack, wnd |-> self.wnd,
                   contents |-> [control |-> new_control,
                                 data |-> slice(self.contents.data, start, end)],
                   options |-> self.options]]

\* The SYN arm without the compensation for the sequence number SYN occupied
overlap_syn_no_compensation(self, new_seq, start, new_len) ==
    IF start = 0
    THEN overlap_slice(self, new_seq, "SYN", start, start + new_len - 1)
    ELSE overlap_slice(self, new_seq, NoControl, start, start + new_len)

\* overlap, the arm `Some(Control::SYN)` of the match on control
overlap_syn(self, new_seq, start, new_len) ==
    IF start = 0
    THEN overlap_slice(self, new_seq, "SYN", start, start + new_len - 1)
    ELSE overlap_slice(self, new_seq, NoControl, start - 1, start + new_len - 1)

\* The FIN arm that keeps FIN whenever the segment was not trimmed on the left
overlap_fin_keeps_untrimmed(self, new_seq, start, new_len) ==
    IF Contents_len(self.contents) = start + new_len \/ start = 0
    THEN IF new_len > 0
         THEN overlap_slice(self, new_seq, "FIN", start, start + new_len - 1)
         ELSE overlap_slice(self, new_seq, NoControl, start - 1, start - 1)
    ELSE overlap_slice(self, new_seq, NoControl, start, start + new_len)

\* The FIN arm without the case of an empty clipped range
overlap_fin_no_empty_case(self, new_seq, start, new_len) ==
    IF Contents_len(self.contents) = start + new_len
    THEN overlap_slice(self, new_seq, "FIN", start, start + new_len - 1)
    ELSE overlap_slice(self, new_seq, NoControl, start, start + new_len)

\* overlap, the arm `Some(Control::FIN)` of the match on control
overlap_fin(self, new_seq, start, new_len) ==
    IF Contents_len(self.contents) = start + new_len
    THEN IF new_len > 0
         THEN overlap_slice(self, new_seq, "FIN", start, start + new_len - 1)
         ELSE overlap_slice(self, new_seq, NoControl, start - 1, start - 1)
    ELSE overlap_slice(self, new_seq, NoControl, start, start + new_len)

\* The RST/None arm that keeps the first new_len bytes whatever was trimmed on the left
overlap_other_keeps_head(self, new_seq, start, new_len) ==
    overlap_slice(self, new_seq, self.contents.control, 0, new_len)

\* The RST/None arm that drops the control of a segment trimmed on the left
overlap_other_drops_control(self, new_seq, start, new_len) ==
    overlap_slice(self, new_seq, IF start > 0 THEN NoControl ELSE self.contents.control,
                  start, start + new_len)

\* overlap, the arm `Some(Control::RST) | None` of the match on control
overlap_other(self, new_seq, start, new_len) ==
    overlap_slice(self, new_seq, self.contents.control, start, start + new_len)

\* overlap: new_seq, the clipped start
overlap_new_seq(self, rnxt) == max_by(self.seq, rnxt)
\* new_len clipped one sequence number short of the right window edge
overlap_new_len_short(self, rnxt, rwnd) ==
    SeqSub(min_by(SeqAdd(self.seq, Contents_len(self.contents)),
                  SeqAdd(rnxt, rwnd + SeqMod - 1)),
           max_by(self.seq, rnxt))

\* overlap: new_len before its conversion to u32 (a signed distance)
overlap_new_len(self, rnxt, rwnd) ==
    SeqSub(min_by(SeqAdd(self.seq, Contents_len(self.contents)), SeqAdd(rnxt, rwnd)),
           overlap_new_seq(self, rnxt))
\* overlap: start before its conversion to u32 (a signed distance)
overlap_start(self, rnxt) == SeqSub(overlap_new_seq(self, rnxt), self.seq)

\* core::cmp::max_by and min_by in the releases of core that evaluate
\* compare(&v2, &v1).is_lt(): the first argument of max_by if the second is less
max_by_lt(v1, v2) == IF cmp(v2, v1) = "Less" THEN v1 ELSE v2
min_by_lt(v1, v2) == IF cmp(v2, v1) = "Less" THEN v2 ELSE v1
\* overlap: new_len before its conversion to u32, built against such a release
overlap_new_len_lt(self, rnxt, rwnd) ==
    SeqSub(min_by_lt(SeqAdd(self.seq, Contents_len(self.contents)), SeqAdd(rnxt, rwnd)),
           max_by_lt(self.seq, rnxt))

\* Segment::overlap
overlap(self, rnxt, rwnd) ==
    LET control == self.contents.control
        new_seq == overlap_new_seq(self, rnxt)
        new_len == overlap_new_len(self, rnxt, rwnd)
        start == overlap_start(self, rnxt)
    IN  IF ~overlap_test(self.seq, Contents_len(self.contents), rnxt, rwnd)
        THEN [kind |-> "None"]
        \* u32::try_from(new_seq - seq).unwrap()
        ELSE IF start < 0 THEN Panic
        \* u32::try_from(new_len).unwrap()
        ELSE IF new_len < 0 THEN Panic
        \* start + new_len is evaluated in every arm
        ELSE IF start + new_len > U32_MAX THEN Panic
        ELSE IF control = "SYN" THEN overlap_syn(self, new_seq, start, new_len)
        ELSE IF control = "FIN" THEN overlap_fin(self, new_seq, start, new_len)
        ELSE overlap_other(self, new_seq, start, new_len)

\* Segment::<()>::with_options: the unit payload () has length 0 and accepts only
\* the range 0..0, which is the empty byte slice
with_options(seq, ack, control, wnd, options) ==
    with_data_options(seq, ack, control, wnd, Payload_new(0), options)

\* Segment::<()>::new
Segment_new(seq, ack, control, wnd) ==
    with_options(seq, ack, control, wnd, [mss |-> None, window_scale |-> None])
\* Segment::<()>::ack
Segment_ack(seq, ack, wnd) == Segment_new(seq, Some(ack), NoControl, wnd)
\* Segment::<()>::syn
Segment_syn(seq, wnd, options) == with_options(seq, None, "SYN", wnd, options)
\* Segment::<()>::syn_ack
Segment_syn_ack(seq, ack, wnd, options) == with_options(seq, Some(ack), "SYN", wnd, options)
\* Segment::rst that advertises the largest window
Segment_rst_open_window(seq) ==
    with_data_options(seq, None, "RST", WindowSize_MAX, Payload_new(0),
                      [mss |-> None, window_scale |-> None])

\* Segment::<()>::rst
Segment_rst(seq) == Segment_new(seq, None, "RST", 0)
\* Segment::<()>::rst_ack
Segment_rst_ack(seq, ack) == Segment_new(seq, Some(ack), "RST", 0)

\* ------------------------------------------------------------- options codec
\* u16::MAX and u8::MAX, the ranges of the raw MSS and window scale of a TcpOption
U16_MAX == 2 ^ 16 - 1
U8_MAX == 2 ^ 8 - 1
\* WindowScale::MAX (RFC 7323: a shift count is at most 14)
WindowScale_MAX == 14
\* WindowScale::new: None for a shift count above WindowScale::MAX
WindowScale_new(ws) == IF ws <= WindowScale_MAX THEN Some(ws) ELSE None
\* Option::unwrap_or
unwrap_or(opt, default) == IF opt = None THEN default ELSE opt[1]
\* NonZeroU16::new(mss).map(Mss)
NonZeroU16_new(mss) == IF mss = 0 THEN None ELSE Some(mss)

\* enum TcpOption: the entries of an option list
TcpOption_Mss(mss) == [kind |-> "Mss", val |-> mss]
TcpOption_WindowScale(ws) == [kind |-> "WindowScale", val |-> ws]
TcpOption_SackPermitted == [kind |-> "SackPermitted", val |-> 0]
TcpOption_Sack == [kind |-> "Sack", val |-> 0]
TcpOption_Timestamp == [kind |-> "Timestamp", val |-> 0]

\* Options::default
Options_default == [mss |-> None, window_scale |-> None]

\* iter with the window scale listed only when it is nonzero
iter_drops_zero_scale(self) ==
    (IF self.mss = None THEN <<>> ELSE <<TcpOption_Mss(self.mss[1])>>)
      \o (IF self.window_scale = None \/ self.window_scale = Some(0) THEN <<>>
          ELSE <<TcpOption_WindowScale(self.window_scale[1])>>)

\* iter with the window scale listed before the MSS
iter_scale_first(self) ==
    (IF self.window_scale = None THEN <<>>
     ELSE <<TcpOption_WindowScale(self.window_scale[1])>>)
      \o (IF self.mss = None THEN <<>> ELSE <<TcpOption_Mss(self.mss[1])>>)

\* Options::iter: mss.map(..).into_iter().chain(window_scale.map(..))
iter(self) ==
    (IF self.mss = None THEN <<>> ELSE <<TcpOption_Mss(self.mss[1])>>)
      \o (IF self.window_scale = None THEN <<>>
          ELSE <<TcpOption_WindowScale(self.window_scale[1])>>)

\* from_iter_match where a zero MSS leaves the MSS decoded so far in place
from_iter_match_zero_keeps(options, option) ==
    IF option.kind = "Mss"
    THEN IF option.val = 0 THEN options ELSE [options EXCEPT !.mss = Some(option.val)]
    ELSE IF option.kind = "WindowScale"
    THEN [options EXCEPT
            !.window_scale = Some(unwrap_or(WindowScale_new(option.val), WindowScale_MAX))]
    ELSE options

\* from_iter_match that stores the raw window scale
from_iter_match_no_clamp(options, option) ==
    IF option.kind = "Mss"
    THEN [options EXCEPT !.mss = NonZeroU16_new(option.val)]
    ELSE IF option.kind = "WindowScale"
    THEN [options EXCEPT !.window_scale = Some(option.val)]
    ELSE options

\* Options::from_iter, the body of the loop: match option { .. }
from_iter_match(options, option) ==
    IF option.kind = "Mss"
    THEN [options EXCEPT !.mss = NonZeroU16_new(option.val)]
    ELSE IF option.kind = "WindowScale"
    THEN [options EXCEPT
            !.window_scale = Some(unwrap_or(WindowScale_new(option.val), WindowScale_MAX))]
    \* SackPermitted | Sack(_) | Timestamp { .. } => {}
    ELSE options

\* Options::from_iter, the loop `for option in iter` from the options decoded so far
RECURSIVE from_iter_loop(_, _)
from_iter_loop(options, entries) ==
    IF entries = <<>> THEN options
    ELSE from_iter_loop(from_iter_match(options, Head(entries)), Tail(entries))

\* Options::from_iter
from_iter(entries) == from_iter_loop(Options_default, entries)

\* ---------------------------------------------------------------- wire decode
\* try_from that rejects only when all three flags are set
try_from_rejects_three_flags(from) ==
    LET flags == (IF from.syn THEN 1 ELSE 0) + (IF from.fin THEN 1 ELSE 0)
                   + (IF from.rst THEN 1 ELSE 0)
        syn == IF from.syn THEN "SYN" ELSE NoControl
        fin == IF from.fin THEN "FIN" ELSE NoControl
        rst == IF from.rst THEN "RST" ELSE NoControl
        control == IF syn # NoControl THEN syn ELSE IF fin # NoControl THEN fin ELSE rst
        options == from_iter(from.options)
        r == with_data_options(from.seq_num, from.ack_num, control, from.window_size,
                               from.body, options)
    IN  IF flags > 2
        THEN [kind |-> "MalformedFlags", syn |-> from.syn, fin |-> from.fin, rst |-> from.rst]
        ELSE IF r.discarded # 0 THEN Panic
        ELSE [kind |-> "Ok", seg |-> r.seg]

\* impl TryFrom<TcpSegment<&[u8]>> for Segment<&[u8]>.  `from` is the parsed wire
\* segment: [syn, fin, rst, seq_num, ack_num, window_size, options, body].
try_from(from) ==
    LET flags == (IF from.syn THEN 1 ELSE 0) + (IF from.fin THEN 1 ELSE 0)
                   + (IF from.rst THEN 1 ELSE 0)
        syn == IF from.syn THEN "SYN" ELSE NoControl
        fin == IF from.fin THEN "FIN" ELSE NoControl
        rst == IF from.rst THEN "RST" ELSE NoControl
        \* syn.or(fin).or(rst)
        control == IF syn # NoControl THEN syn ELSE IF fin # NoControl THEN fin ELSE rst
        options == from_iter(from.options)
        r == with_data_options(from.seq_num, from.ack_num, control, from.window_size,
                               from.body, options)
    IN  IF flags > 1
        THEN [kind |-> "MalformedFlags", syn |-> from.syn, fin |-> from.fin, rst |-> from.rst]
        \* debug_assert_eq!(discarded, 0)
        ELSE IF r.discarded # 0 THEN Panic
        ELSE [kind |-> "Ok", seg |-> r.seg]

\* -------------------------------------------------------------------- state
VARIABLES
    pc,         \* "init", "built" (a segment was constructed), "trimmed" (overlap was applied)
    args,       \* the arguments the constructor was called with
    seg,        \* the segment the constructor returned
    discarded,  \* the count the constructor returned
    rcv,        \* the arguments of overlap: [nxt, wnd]
    res,        \* what overlap returned: None, Some(segment), or a panic;
                \* for a wire decode that failed, the error
    codec,      \* the options codec: the entries given to from_iter, the Options it
                \* returned, the entries iter yields for them, and these decoded again
    sl,         \* the last Payload::slice call: the payload, the range and the outcome
    again       \* the last evaluation of overlap after the first one: its segment,
                \* its window and what it returned

vars == <<pc, args, seg, discarded, rcv, res, codec, sl, again>>

SeqNums == 0 .. SeqMod - 1
WindowSizes == 0 .. WindowSize_MAX
DataLens == 0 .. MAX_PAYLOAD_AND_CONTROL_LEN + ExtraData
DefaultOptions == Options_default
\* The fields a segment carries through untouched: (ack, wnd, options)
Headers ==
    { [ack |-> None, wnd |-> 0, options |-> DefaultOptions],
      [ack |-> Some(1), wnd |-> 1, options |-> [mss |-> Some(1), window_scale |-> Some(1)]] }

\* Raw values of the MSS and window scale options
MssValues == {0, 1, U16_MAX}
WindowScaleValues == (0 .. WindowScale_MAX + 1) \cup {U8_MAX}
TcpOptions ==
    {TcpOption_Mss(v) : v \in MssValues}
      \cup {TcpOption_WindowScale(v) : v \in WindowScaleValues}
      \cup {TcpOption_SackPermitted, TcpOption_Sack, TcpOption_Timestamp}
\* The option lists of at most MaxOptions entries
OptionLists == UNION {[1 .. n -> TcpOptions] : n \in 0 .. MaxOptions}
\* The option lists a wire segment carries
WireOptionLists ==
    { <<>>,
      <<TcpOption_Mss(U16_MAX), TcpOption_WindowScale(U8_MAX)>>,
      <<TcpOption_WindowScale(1), TcpOption_SackPermitted, TcpOption_Mss(0)>> }
\* (ack_num, window_size) of a wire segment
WireHeaders == {[ack_num |-> None, window_size |-> 0], [ack_num |-> Some(1), window_size |-> 1]}
CodecIdle ==
    [entries |-> <<>>, options |-> Options_default, iter |-> <<>>, again |-> Options_default]

Init ==
    /\ pc = "init"
    /\ args = None
    /\ seg = None
    /\ discarded = 0
    /\ rcv = None
    /\ res = [kind |-> "NotCalled"]
    /\ codec = CodecIdle
    /\ sl = [kind |-> "NotCalled"]
    /\ again = [kind |-> "NotCalled"]

\* A caller builds a segment: Segment::with_data_options
WithDataOptions ==
    /\ pc = "init"
    /\ \E seq \in SeqNums, control \in OptControl, n \in DataLens, h \in Headers :
          LET r == with_data_options(seq, h.ack, control, h.wnd, Payload_new(n), h.options)
          IN  /\ args' = [ctor |-> "with_data_options", seq |-> seq, ack |-> h.ack,
                          control |-> control, wnd |-> h.wnd,
                          data |-> Payload_new(n), options |-> h.options]
              /\ seg' = r.seg
              /\ discarded' = r.discarded
    /\ pc' = "built"
    /\ UNCHANGED <<rcv, res, codec, sl, again>>

\* A caller builds a segment without payload: Segment::<()>::with_options
WithOptions ==
    /\ pc = "init"
    /\ \E seq \in SeqNums, control \in OptControl, h \in Headers :
          LET r == with_options(seq, h.ack, control, h.wnd, h.options)
          IN  /\ args' = [ctor |-> "with_options", seq |-> seq, ack |-> h.ack,
                          control |-> control, wnd |-> h.wnd,
                          data |-> Payload_new(0), options |-> h.options]
              /\ seg' = r.seg
              /\ discarded' = r.discarded
    /\ pc' = "built"
    /\ UNCHANGED <<rcv, res, codec, sl, again>>

\* The receiver trims the segment to its window: Segment::overlap
Overlap ==
    /\ pc = "built"
    /\ \E rnxt \in SeqNums, rwnd \in WindowSizes :
          /\ rcv' = [nxt |-> rnxt, wnd |-> rwnd]
          /\ res' = overlap(seg, rnxt, rwnd)
    /\ pc' = "trimmed"
    /\ UNCHANGED <<args, seg, discarded, codec, sl, again>>

Next == WithDataOptions \/ WithOptions \/ Overlap

Spec == Init /\ [][Next]_vars

\* A list of options is decoded: Options::from_iter
FromIter ==
    /\ pc = "init"
    /\ \E entries \in OptionLists :
          codec' = [codec EXCEPT !.entries = entries, !.options = from_iter(entries)]
    /\ pc' = "decoded"
    /\ UNCHANGED <<args, seg, discarded, rcv, res, sl, again>>

\* The decoded options are listed again: Options::iter
Iter ==
    /\ pc = "decoded"
    /\ codec' = [codec EXCEPT !.iter = iter(codec.options)]
    /\ pc' = "encoded"
    /\ UNCHANGED <<args, seg, discarded, rcv, res, sl, again>>

\* The listed options are decoded again: Options::from_iter(options.iter())
FromIterOfIter ==
    /\ pc = "encoded"
    /\ codec' = [codec EXCEPT !.again = from_iter(codec.iter)]
    /\ pc' = "redecoded"
    /\ UNCHANGED <<args, seg, discarded, rcv, res, sl, again>>

\* A parsed wire segment is converted: Segment::try_from(TcpSegment)
TryFrom ==
    /\ pc = "init"
    /\ \E syn \in BOOLEAN, fin \in BOOLEAN, rst \in BOOLEAN, seq \in SeqNums,
          h \in WireHeaders, options \in WireOptionLists, n \in 0 .. MaxBody :
          LET from == [syn |-> syn, fin |-> fin, rst |-> rst, seq_num |-> seq,
                       ack_num |-> h.ack_num, window_size |-> h.window_size,
                       options |-> options, body |-> Payload_new(n)]
              r == try_from(from)
          IN  /\ args' = [ctor |-> "try_from", from |-> from]
              /\ IF r.kind = "Ok"
                 THEN /\ seg' = r.seg
                      /\ pc' = "built"
                      /\ res' = res
                 ELSE /\ seg' = seg
                      /\ pc' = "failed"
                      /\ res' = r
    /\ UNCHANGED <<discarded, rcv, codec, sl, again>>

\* The options codec and the wire decode adapter
NextWire == FromIter \/ Iter \/ FromIterOfIter \/ TryFrom

SpecWire == Init /\ [][NextWire]_vars

\* The segments overlap is evaluated on after the first evaluation: the constructed
\* segment, and the segment the first evaluation returned
AgainSegments == {seg} \cup (IF res.kind = "Some" THEN {res.seg} ELSE {})

\* An evaluation of overlap that trims against a receive window advanced past what the
\* first evaluation accepted
OverlapAgain_advances ==
    /\ pc \in {"trimmed", "again"}
    /\ \E s \in AgainSegments :
          again' = [kind |-> "Called", seg |-> s, nxt |-> rcv.nxt, wnd |-> rcv.wnd,
                    res |-> overlap(s, IF res.kind = "Some"
                                       THEN SeqAdd(rcv.nxt, Contents_len(res.seg.contents))
                                       ELSE rcv.nxt,
                                    rcv.wnd)]
    /\ pc' = "again"
    /\ UNCHANGED <<args, seg, discarded, rcv, res, codec, sl>>

\* overlap is evaluated once more, on the same window: Segment::overlap
OverlapAgain ==
    /\ pc \in {"trimmed", "again"}
    /\ \E s \in AgainSegments :
          again' = [kind |-> "Called", seg |-> s, nxt |-> rcv.nxt, wnd |-> rcv.wnd,
                    res |-> overlap(s, rcv.nxt, rcv.wnd)]
    /\ pc' = "again"
    /\ UNCHANGED <<args, seg, discarded, rcv, res, codec, sl>>

\* Construction followed by repeated evaluations of overlap
NextTwice == WithDataOptions \/ WithOptions \/ Overlap \/ OverlapAgain

SpecTwice == Init /\ [][NextTwice]_vars

\* The acknowledgement numbers, windows and options given to the no-payload constructors
AckNums == {0, U32_MAX}
UnscaledWindows == {0, 1, U16_MAX}
SynOptions == {h.options : h \in Headers}

\* Segment::new
New ==
    /\ pc = "init"
    /\ \E seq \in SeqNums, a \in {None} \cup {Some(n) : n \in AckNums},
          control \in OptControl, wnd \in UnscaledWindows :
          LET r == Segment_new(seq, a, control, wnd)
          IN  /\ args' = [ctor |-> "new", seq |-> seq, ack |-> a, control |-> control,
                          wnd |-> wnd]
              /\ seg' = r.seg
              /\ discarded' = r.discarded
    /\ pc' = "built"
    /\ UNCHANGED <<rcv, res, codec, sl, again>>

\* Segment::ack
Ack ==
    /\ pc = "init"
    /\ \E seq \in SeqNums, a \in AckNums, wnd \in UnscaledWindows :
          LET r == Segment_ack(seq, a, wnd)
          IN  /\ args' = [ctor |-> "ack", seq |-> seq, ack |-> a, wnd |-> wnd]
              /\ seg' = r.seg
              /\ discarded' = r.discarded
    /\ pc' = "built"
    /\ UNCHANGED <<rcv, res, codec, sl, again>>

\* Segment::syn
Syn ==
    /\ pc = "init"
    /\ \E seq \in SeqNums, wnd \in UnscaledWindows, options \in SynOptions :
          LET r == Segment_syn(seq, wnd, options)
          IN  /\ args' = [ctor |-> "syn", seq |-> seq, wnd |-> wnd, options |-> options]
              /\ seg' = r.seg
              /\ discarded' = r.discarded
    /\ pc' = "built"
    /\ UNCHANGED <<rcv, res, codec, sl, again>>

\* Segment::syn_ack
SynAck ==
    /\ pc = "init"
    /\ \E seq \in SeqNums, a \in AckNums, wnd \in UnscaledWindows, options \in SynOptions :
          LET r == Segment_syn_ack(seq, a, wnd, options)
          IN  /\ args' = [ctor |-> "syn_ack", seq |-> seq, ack |-> a, wnd |-> wnd,
                          options |-> options]
              /\ seg' = r.seg
              /\ discarded' = r.discarded
    /\ pc' = "built"
    /\ UNCHANGED <<rcv, res, codec, sl, again>>

\* Segment::rst
Rst ==
    /\ pc = "init"
    /\ \E seq \in SeqNums :
          LET r == Segment_rst(seq)
          IN  /\ args' = [ctor |-> "rst", seq |-> seq]
              /\ seg' = r.seg
              /\ discarded' = r.discarded
    /\ pc' = "built"
    /\ UNCHANGED <<rcv, res, codec, sl, again>>

\* Segment::rst_ack
RstAck ==
    /\ pc = "init"
    /\ \E seq \in SeqNums, a \in AckNums :
          LET r == Segment_rst_ack(seq, a)
          IN  /\ args' = [ctor |-> "rst_ack", seq |-> seq, ack |-> a]
              /\ seg' = r.seg
              /\ discarded' = r.discarded
    /\ pc' = "built"
    /\ UNCHANGED <<rcv, res, codec, sl, again>>

\* The constructors of segments without payload
NextNoPayload == New \/ WithOptions \/ Ack \/ Syn \/ SynAck \/ Rst \/ RstAck

SpecNoPayload == Init /\ [][NextNoPayload]_vars

\* The payloads slice is called on: whole buffers, and views that start inside one
Payloads ==
    {Payload_new(n) : n \in DataLens}
      \cup {slice(Payload_new(n), 1, n) : n \in DataLens \ {0}}
\* The bounds of a Range<u32>
RangeBounds == 0 .. U32_MAX

\* A byte-slice payload is sliced: <&[u8] as Payload>::slice
SliceBytes ==
    /\ pc = "init"
    /\ \E p \in Payloads, start \in RangeBounds, end \in RangeBounds :
          sl' = [kind |-> "bytes", payload |-> p, start |-> start, end |-> end,
                 out |-> Bytes_slice(p, start, end)]
    /\ pc' = "sliced"
    /\ UNCHANGED <<args, seg, discarded, rcv, res, codec, again>>

\* The unit payload is sliced: <() as Payload>::slice
SliceUnit ==
    /\ pc = "init"
    /\ \E start \in RangeBounds, end \in RangeBounds :
          sl' = [kind |-> "unit", payload |-> Payload_new(0), start |-> start, end |-> end,
                 out |-> Unit_slice(start, end)]
    /\ pc' = "sliced"
    /\ UNCHANGED <<args, seg, discarded, rcv, res, codec, again>>

\* The Payload implementations
NextPayload == SliceBytes \/ SliceUnit

SpecPayload == Init /\ [][NextPayload]_vars

TypeOK ==
    /\ pc \in {"init", "built", "trimmed", "decoded", "encoded", "redecoded", "failed",
               "sliced", "again"}
    /\ (pc = "trimmed") = (res.kind \in {"None", "Some", "Panic"})

\* ------------------------------------------------------------ the properties
Built == pc \in {"built", "trimmed"}
Trimmed == pc = "trimmed"
Returned == pc = "trimmed" /\ res.kind = "Some"
\* SEG.LEN of the constructed segment and of the trimmed one
seg_len == Contents_len(seg.contents)
res_len == Contents_len(res.seg.contents)
seg_end == SeqAdd(seg.seq, seg_len)
rcv_end == SeqAdd(rcv.nxt, rcv.wnd)

\* Wraparound-safe order of spec section 3: a <= b iff a is not after b, a < b iff a is before b
WrapLe(a, b) == SeqSub(a, b) <= 0
WrapLt(a, b) == SeqSub(a, b) < 0
\* The same intervals as offsets from the left window edge, modulo the sequence space
Offset(x, lo) == (x - lo + SeqMod) % SeqMod
\* RFC 793 acceptability table as the spec states it (section 4.4)
AcceptTable(seq, len, nxt, wnd) ==
    IF len = 0 /\ wnd = 0 THEN seq = nxt
    ELSE IF len = 0 THEN WrapLe(nxt, seq) /\ WrapLt(seq, SeqAdd(nxt, wnd))
    ELSE IF wnd = 0 THEN FALSE
    ELSE \/ (WrapLe(nxt, seq) /\ WrapLt(seq, SeqAdd(nxt, wnd)))
         \/ (WrapLe(nxt, SeqAdd(seq, len)) /\ WrapLe(SeqAdd(seq, len), SeqAdd(nxt, wnd)))
AcceptTableOffsets(seq, len, nxt, wnd) ==
    IF len = 0 /\ wnd = 0 THEN seq = nxt
    ELSE IF len = 0 THEN Offset(seq, nxt) < wnd
    ELSE IF wnd = 0 THEN FALSE
    ELSE Offset(seq, nxt) < wnd \/ Offset(SeqAdd(seq, len), nxt) <= wnd

\* C1: overlap returns None exactly when the acceptability table (len = 0/wnd = 0: seq = rcv_nxt;
\* len = 0/wnd > 0: rcv_nxt <= seq < rcv_nxt+wnd; len > 0/wnd = 0: never; len > 0/wnd > 0:
\* seq in the window or rcv_nxt <= seq+len <= rcv_nxt+wnd) is false, for every constructed segment.
C1_NoneIffTableFalse ==
    Trimmed =>
        /\ (res.kind = "None") <=> ~AcceptTable(seg.seq, seg_len, rcv.nxt, rcv.wnd)
        /\ (res.kind = "None") <=> ~AcceptTableOffsets(seg.seq, seg_len, rcv.nxt, rcv.wnd)
C1_Witness ==
    /\ Trimmed /\ res.kind = "None" /\ seg_len > 0 /\ rcv.wnd > 0
    /\ before(seg.seq, rcv.nxt)

\* C2: overlap never panics on a segment that passed the acceptability test, for every
\* segment with_data_options can return (sequence length up to MAX_PAYLOAD_AND_CONTROL_LEN).
C2_NoPanicWhenAcceptable ==
    Trimmed /\ AcceptTable(seg.seq, seg_len, rcv.nxt, rcv.wnd) => res.kind # "Panic"

\* C3 as claimed: every constructed segment has sequence length <= MAX_PAYLOAD_AND_CONTROL_LEN - 1.
C3_LenBelowMax == Built => seg_len <= MAX_PAYLOAD_AND_CONTROL_LEN - 1
\* C3 amended: every constructed segment has sequence length <= MAX_PAYLOAD_AND_CONTROL_LEN,
\* and the bound is met.
C3_LenAtMostMax == Built => seg_len <= MAX_PAYLOAD_AND_CONTROL_LEN
C3_Witness == Built /\ discarded > 0 /\ seg_len = MAX_PAYLOAD_AND_CONTROL_LEN

ContentsInv(c) ==
    /\ c.data.lo <= c.data.hi
    /\ (c.data.hi - c.data.lo) + (IF c.control \in {"SYN", "FIN"} THEN 1 ELSE 0)
          <= MAX_PAYLOAD_AND_CONTROL_LEN
C5_ContentsInvariant ==
    /\ Built => ContentsInv(seg.contents)
    /\ Returned => ContentsInv(res.seg.contents)
C5_Witness ==
    /\ Returned /\ discarded > 0 /\ seg_len = MAX_PAYLOAD_AND_CONTROL_LEN
    /\ res.seg.contents.control = "SYN" /\ res_len = WindowSize_MAX

\* Wraparound-safe maximum and minimum of two sequence numbers
WrapMax(a, b) == IF WrapLt(a, b) THEN b ELSE a
WrapMin(a, b) == IF WrapLt(b, a) THEN b ELSE a
IntMin(a, b) == IF a <= b THEN a ELSE b

\* C6: when overlap returns Some(r): r.seq = max(s.seq, rcv_nxt), r.len = min(s.seq + s.len,
\* rcv_nxt + rcv_wnd) - r.seq, and r is the part of s inside the window: rcv_nxt <= r.seq,
\* r.seq + r.len <= rcv_nxt + rcv_wnd, s.seq <= r.seq, r.seq + r.len <= s.seq + s.len,
\* r.len <= min(s.len, rcv_wnd).
C6_ResultIsClippedRange ==
    Returned =>
        /\ res.seg.seq = WrapMax(seg.seq, rcv.nxt)
        /\ res_len = SeqSub(WrapMin(seg_end, rcv_end), res.seg.seq)
        /\ WrapLe(rcv.nxt, res.seg.seq)
        /\ WrapLe(SeqAdd(res.seg.seq, res_len), rcv_end)
        /\ WrapLe(seg.seq, res.seg.seq)
        /\ WrapLe(SeqAdd(res.seg.seq, res_len), seg_end)
        /\ res_len <= IntMin(seg_len, rcv.wnd)
C6_Witness ==
    /\ Returned /\ after(seg.seq, rcv.nxt) /\ after(seg_end, rcv_end)
    /\ res.seg.seq = seg.seq /\ res_len > 0 /\ res_len < seg_len /\ res_len < rcv.wnd

\* C7 as claimed (simultaneous-open relaxation): with rcv_wnd > 0, a segment of nonzero length
\* that ends exactly at rcv_nxt is not rejected: overlap returns Some segment at rcv_nxt with
\* zero sequence length, empty data and neither SYN nor FIN; and a segment that starts before
\* rcv_nxt and ends exactly at rcv_nxt + rcv_wnd is accepted.
C7_LeftEdgeAccepted ==
    Trimmed /\ rcv.wnd > 0 /\ seg_len > 0 =>
        /\ seg_end = rcv.nxt =>
              /\ res.kind = "Some"
              /\ res.seg.seq = rcv.nxt
              /\ res_len = 0
              /\ Payload_len(res.seg.contents.data) = 0
              /\ res.seg.contents.control \notin {"SYN", "FIN"}
        /\ before(seg.seq, rcv.nxt) /\ seg_end = rcv_end => res.kind = "Some"

\* The clipped bounds of spec section 4.4 step 2, as signed distances
ClipSeq == WrapMax(seg.seq, rcv.nxt)
ClipLen == SeqSub(WrapMin(seg_end, rcv_end), ClipSeq)
ClipStart == SeqSub(ClipSeq, seg.seq)
\* The segment passed the acceptability test and start, new_len were converted to unsigned
Clipped == Trimmed /\ res.kind # "None" /\ ClipStart >= 0 /\ ClipLen >= 0
\* overlap returned control c with bytes [a, b) of the constructed segment's data
Yields(c, a, b) ==
    /\ res.kind = "Some"
    /\ res.seg.contents.control = c
    /\ res.seg.contents.data = [lo |-> seg.contents.data.lo + a, hi |-> seg.contents.data.lo + b]

\* C8: for an accepted SYN segment: start = 0 keeps SYN with data[0 .. new_len-1); start > 0
\* drops SYN with data[start-1 .. start+new_len-1); the result carries SYN iff seq is not
\* before rcv_nxt.
C8_SynArm ==
    Trimmed /\ res.kind # "None" /\ seg.contents.control = "SYN" =>
        /\ Clipped /\ ClipStart = 0 => Yields("SYN", 0, ClipLen - 1)
        /\ Clipped /\ ClipStart > 0 =>
              Yields(NoControl, ClipStart - 1, ClipStart + ClipLen - 1)
        /\ (res.kind = "Some" /\ res.seg.contents.control = "SYN")
              <=> ~before(seg.seq, rcv.nxt)
C8_Witness ==
    /\ Clipped /\ seg.contents.control = "SYN" /\ ClipStart > 1 /\ ClipLen > 1
    /\ Payload_len(res.seg.contents.data) = ClipLen

\* C9: for an accepted FIN segment: if len = start + new_len and new_len > 0 the result keeps
\* FIN with data[start .. start+new_len-1); if len = start + new_len and new_len = 0 FIN is
\* dropped and the data is the empty range [start-1, start-1); if the tail was trimmed FIN is
\* dropped with data[start .. start+new_len).  seq = 1, FIN, one data byte, rcv_nxt = 3 and a
\* nonempty window yield Some(seq = 3, no control, data range 1..1).
C9_FinArm ==
    /\ Trimmed /\ res.kind # "None" /\ seg.contents.control = "FIN" /\ Clipped =>
        /\ seg_len = ClipStart + ClipLen /\ ClipLen > 0 =>
              Yields("FIN", ClipStart, ClipStart + ClipLen - 1)
        /\ seg_len = ClipStart + ClipLen /\ ClipLen = 0 =>
              Yields(NoControl, ClipStart - 1, ClipStart - 1)
        /\ seg_len # ClipStart + ClipLen =>
              Yields(NoControl, ClipStart, ClipStart + ClipLen)
    /\ /\ Trimmed /\ seg.seq = 1 /\ seg.contents = [control |-> "FIN", data |-> Payload_new(1)]
       /\ rcv.nxt = 3 /\ rcv.wnd > 0
       => /\ res.kind = "Some"
          /\ res.seg.seq = 3
          /\ res.seg.contents = [control |-> NoControl, data |-> [lo |-> 1, hi |-> 1]]
C9_Witness ==
    /\ Clipped /\ seg.seq = 1 /\ seg.contents = [control |-> "FIN", data |-> Payload_new(1)]
    /\ rcv.nxt = 3 /\ rcv.wnd = WindowSize_MAX
    /\ seg_len = ClipStart + ClipLen /\ ClipLen = 0

\* C10: for an accepted segment whose control is RST or absent, overlap leaves the control
\* unchanged and the data is exactly data[start .. start+new_len).
C10_OtherArm ==
    Clipped /\ seg.contents.control \in {"RST", NoControl} =>
        Yields(seg.contents.control, ClipStart, ClipStart + ClipLen)
C10_Witness ==
    /\ Clipped /\ seg.contents.control = "RST" /\ ClipStart > 0 /\ ClipLen > 0
    /\ res.kind = "Some" /\ res.seg.contents.control = "RST"
    /\ res.seg.contents.data.lo > 0

\* C11: whenever overlap returns Some(r), r.ack, r.wnd and r.options equal the input
\* segment's; only seq, control and data may differ.
C11_HeaderCarriedThrough ==
    Returned =>
        /\ res.seg.ack = seg.ack
        /\ res.seg.wnd = seg.wnd
        /\ res.seg.options = seg.options
C11_Witness ==
    /\ Returned /\ seg.ack = Some(1) /\ seg.wnd = 1 /\ seg.options.mss = Some(1)
    /\ res.seg.seq # seg.seq /\ res.seg.contents # seg.contents

\* The segment was built by with_data_options from a payload of n bytes and control c
BuiltFrom(c, n) ==
    /\ Built /\ args.ctor = "with_data_options"
    /\ args.control = c /\ Payload_len(args.data) = n
\* The constructor returned data bytes [0, n) under control c, and the count d
Returns(n, c, d) ==
    /\ seg.contents = [control |-> c, data |-> [lo |-> 0, hi |-> n]]
    /\ discarded = d
\* max(0, data.len() - (MAX - h)), h = 1 iff the original control is SYN or FIN
ExpectedDiscarded ==
    LET excess == Payload_len(args.data)
                    - (MAX_PAYLOAD_AND_CONTROL_LEN
                         - (IF args.control \in {"SYN", "FIN"} THEN 1 ELSE 0))
    IN  IF excess > 0 THEN excess ELSE 0

\* C12: truncation by with_data_options: the count is max(0, data.len() - (MAX - h)); when it
\* is positive, SYN is kept with data[0 .. MAX-1), FIN is dropped with data[0 .. MAX), RST or
\* no control is kept with data[0 .. MAX).  data_len = MAX gives (MAX-1, SYN, 1),
\* (MAX, none, 1) for FIN, (MAX, RST, 0); data_len = MAX+1 with FIN gives (MAX, none, 2).
C12_Truncation ==
    /\ Built /\ args.ctor = "with_data_options" =>
        /\ discarded = ExpectedDiscarded
        /\ discarded > 0 /\ args.control = "SYN" =>
              seg.contents = [control |-> "SYN",
                              data |-> [lo |-> 0, hi |-> MAX_PAYLOAD_AND_CONTROL_LEN - 1]]
        /\ discarded > 0 /\ args.control = "FIN" =>
              seg.contents = [control |-> NoControl,
                              data |-> [lo |-> 0, hi |-> MAX_PAYLOAD_AND_CONTROL_LEN]]
        /\ discarded > 0 /\ args.control \in {"RST", NoControl} =>
              seg.contents = [control |-> args.control,
                              data |-> [lo |-> 0, hi |-> MAX_PAYLOAD_AND_CONTROL_LEN]]
    /\ BuiltFrom("SYN", MAX_PAYLOAD_AND_CONTROL_LEN) =>
          Returns(MAX_PAYLOAD_AND_CONTROL_LEN - 1, "SYN", 1)
    /\ BuiltFrom("FIN", MAX_PAYLOAD_AND_CONTROL_LEN) =>
          Returns(MAX_PAYLOAD_AND_CONTROL_LEN, NoControl, 1)
    /\ BuiltFrom("RST", MAX_PAYLOAD_AND_CONTROL_LEN) =>
          Returns(MAX_PAYLOAD_AND_CONTROL_LEN, "RST", 0)
    /\ BuiltFrom("FIN", MAX_PAYLOAD_AND_CONTROL_LEN + 1) =>
          Returns(MAX_PAYLOAD_AND_CONTROL_LEN, NoControl, 2)
C12_Witness ==
    BuiltFrom("FIN", MAX_PAYLOAD_AND_CONTROL_LEN + 1) /\ discarded = 2

C14_FrameOfConstructor ==
    Built =>
        /\ discarded = 0 =>
              seg.contents = [control |-> args.control, data |-> args.data]
        /\ seg.seq = args.seq
        /\ seg.ack = args.ack
        /\ seg.wnd = args.wnd
        /\ seg.options = args.options
C14_Witness ==
    /\ Built /\ args.ctor = "with_data_options" /\ discarded = 0
    /\ args.control = "FIN" /\ Payload_len(args.data) = MAX_PAYLOAD_AND_CONTROL_LEN - 1
    /\ args.options.window_scale = Some(1) /\ args.seq > 0

\* C15: Contents::len() is data.len() + 1 when the control is SYN or FIN, and data.len() when
\* it is RST or absent, for every contents within the Contents invariant.
LenOf(c) ==
    CASE c.control = "SYN" -> (c.data.hi - c.data.lo) + 1
      [] c.control = "FIN" -> (c.data.hi - c.data.lo) + 1
      [] c.control = "RST" -> c.data.hi - c.data.lo
      [] c.control = NoControl -> c.data.hi - c.data.lo
C15_ContentsLen ==
    /\ Built => Contents_len(seg.contents) = LenOf(seg.contents)
    /\ Returned => Contents_len(res.seg.contents) = LenOf(res.seg.contents)
C15_Witness ==
    /\ Built /\ seg.contents.control = "RST" /\ Payload_len(seg.contents.data) = 1
    /\ Contents_len(seg.contents) = 1


\* Options::from_iter has returned
Decoded == pc \in {"decoded", "encoded", "redecoded"}
\* The position of the last entry of a kind in a list of options, 0 if there is none
LastIndex(entries, kind) ==
    LET I == {i \in DOMAIN entries : entries[i].kind = kind}
    IN  IF I = {} THEN 0 ELSE CHOOSE i \in I : \A j \in I : j <= i

\* C16: from_iter over a sequence of option entries: the mss is determined by the last
\* MSS entry only, Some(v) if its value v is nonzero, absent if it is zero or if there
\* is no MSS entry; the window_scale is determined by the last window-scale entry only,
\* absent if there is none.
C16_LastEntryWins ==
    Decoded =>
        LET m == LastIndex(codec.entries, "Mss")
            w == LastIndex(codec.entries, "WindowScale")
        IN  /\ codec.options.mss =
                 (IF m = 0 THEN None
                  ELSE IF codec.entries[m].val = 0 THEN None
                  ELSE Some(codec.entries[m].val))
            /\ codec.options.window_scale =
                 (IF w = 0 THEN None ELSE from_iter(<<codec.entries[w]>>).window_scale)
            /\ (w # 0 => codec.options.window_scale # None)
\* a later zero MSS has cleared an earlier nonzero one, with a window scale in between
C16_Witness ==
    /\ pc = "decoded"
    /\ codec.entries = <<TcpOption_Mss(1), TcpOption_WindowScale(1), TcpOption_Mss(0)>>
    /\ codec.options = [mss |-> None, window_scale |-> Some(1)]

\* The values of Options: mss absent or nonzero 16 bit, window_scale absent or 0 .. 14
IsOptions(o) ==
    /\ DOMAIN o = {"mss", "window_scale"}
    /\ \/ o.mss = None
       \/ Len(o.mss) = 1 /\ o.mss[1] \in 1 .. U16_MAX
    /\ \/ o.window_scale = None
       \/ Len(o.window_scale) = 1 /\ o.window_scale[1] \in 0 .. 14
\* C17: from_iter is total and clamps: for every input sequence, entries that are
\* ignored included, it returns an Options value; a window-scale entry with raw shift
\* ws is stored as ws if ws <= 14 and as exactly 14 if ws > 14, so the decoded
\* window_scale is always in 0 .. 14.
C17_TotalAndClamps ==
    Decoded =>
        LET w == LastIndex(codec.entries, "WindowScale")
        IN  /\ IsOptions(codec.options)
            /\ (w # 0 =>
                  codec.options.window_scale =
                    Some(IF codec.entries[w].val <= 14 THEN codec.entries[w].val ELSE 14))
\* a shift count above 14 followed by ignored entries is stored as 14
C17_Witness ==
    /\ pc = "decoded"
    /\ codec.entries = <<TcpOption_WindowScale(U8_MAX), TcpOption_Sack, TcpOption_Timestamp>>
    /\ codec.options.window_scale = Some(14)

\* C18: Options round trip: for every Options value o, from_iter(o.iter()) = o.
C18_RoundTrip ==
    pc = "redecoded" => (IsOptions(codec.options) /\ codec.again = codec.options)
\* both options present, the window scale zero
C18_Witness ==
    /\ pc = "redecoded"
    /\ codec.options = [mss |-> Some(U16_MAX), window_scale |-> Some(0)]
    /\ codec.again = codec.options

\* Options::iter has returned
Encoded == pc \in {"encoded", "redecoded"}
\* C19: iter yields at most two entries: an MSS entry iff mss is present, followed by
\* a window-scale entry iff window_scale is present, MSS before window scale, and
\* nothing else.
C19_IterOrder ==
    Encoded =>
        LET it == codec.iter
            M == {i \in DOMAIN it : it[i].kind = "Mss"}
            W == {i \in DOMAIN it : it[i].kind = "WindowScale"}
        IN  /\ Len(it) <= 2
            /\ M \cup W = DOMAIN it
            /\ Cardinality(M) = (IF codec.options.mss = None THEN 0 ELSE 1)
            /\ Cardinality(W) = (IF codec.options.window_scale = None THEN 0 ELSE 1)
            /\ \A i \in M : it[i].val = codec.options.mss[1]
            /\ \A i \in W : it[i].val = codec.options.window_scale[1]
            /\ \A i \in M, j \in W : i < j
\* both entries are yielded
C19_Witness ==
    /\ pc = "encoded"
    /\ codec.iter = <<TcpOption_Mss(1), TcpOption_WindowScale(14)>>

\* Segment::try_from has returned
Converted == pc \in {"built", "failed"} /\ args.ctor = "try_from"
\* The number of SYN, FIN, RST flags set in the wire segment
FlagCount(from) ==
    Cardinality({f \in {"syn", "fin", "rst"} : from[f]})
\* C20: the wire decode fails with MalformedFlags if and only if more than one of the
\* SYN, FIN, RST flags is set; otherwise it succeeds and the segment's control is
\* exactly the single set flag or none when no flag is set, with seq, ack, window and
\* body taken from the wire fields.
C20_WireDecode ==
    Converted =>
        LET from == args.from
        IN  /\ (pc = "failed") = (FlagCount(from) > 1)
            /\ (pc = "failed" => res.kind = "MalformedFlags")
            /\ (pc = "built" =>
                  /\ seg.contents.control =
                       (IF from.syn THEN "SYN" ELSE IF from.fin THEN "FIN"
                        ELSE IF from.rst THEN "RST" ELSE NoControl)
                  /\ seg.seq = from.seq_num
                  /\ seg.ack = from.ack_num
                  /\ seg.wnd = from.window_size
                  /\ seg.contents.data = from.body)
\* SYN and FIN together are rejected
C20_Witness ==
    /\ pc = "failed"
    /\ res = [kind |-> "MalformedFlags", syn |-> TRUE, fin |-> TRUE, rst |-> FALSE]
\* a lone RST with a body is converted
C20_WitnessConverted ==
    /\ pc = "built"
    /\ args.ctor = "try_from"
    /\ args.from.rst
    /\ seg.contents = [control |-> "RST", data |-> Payload_new(MaxBody)]

\* C21: Payload::slice contract: for a byte-slice payload of length n, slice(a..b)
\* succeeds iff a <= b <= n and then returns exactly bytes a..b (length b - a); for the
\* unit payload it succeeds iff a = 0 and b = 0; in every other case the call panics,
\* never a silently clamped or wrong result.
C21_SliceContract ==
    pc = "sliced" =>
        LET n == sl.payload.hi - sl.payload.lo
            a == sl.start
            b == sl.end
        IN  /\ sl.kind = "bytes" =>
                 /\ (sl.out.kind = "Ok") = (a <= b /\ b <= n)
                 /\ sl.out.kind = "Ok" =>
                       /\ sl.out.data = [lo |-> sl.payload.lo + a, hi |-> sl.payload.lo + b]
                       /\ sl.out.data.hi - sl.out.data.lo = b - a
            /\ sl.kind = "unit" =>
                 /\ (sl.out.kind = "Ok") = (a = 0 /\ b = 0)
                 /\ sl.out.kind = "Ok" => sl.out.data.hi - sl.out.data.lo = 0
            /\ sl.out.kind \in {"Ok", "Panic"}
\* a range that ends one past a view that starts inside its buffer panics
C21_Witness ==
    /\ pc = "sliced" /\ sl.kind = "bytes"
    /\ sl.payload = [lo |-> 1, hi |-> 3] /\ sl.start = 1 /\ sl.end = 3
    /\ sl.out = Panic

C26_Idempotent ==
    /\ pc = "again" /\ res.kind = "Some" /\ again.seg = res.seg
         => again.res = [kind |-> "Some", seg |-> res.seg]
    /\ pc \in {"trimmed", "again"} /\ res.kind = "Some"
         => overlap(res.seg, rcv.nxt, rcv.wnd) = res
\* a FIN segment that ended at rcv_nxt was reduced to an empty segment, which is kept
C26_Witness ==
    /\ pc = "again" /\ res.kind = "Some" /\ again.seg = res.seg /\ again.seg # seg
    /\ seg.contents.control = "FIN" /\ Contents_len(res.seg.contents) = 0
    /\ again.res = res

C23_NewLenNonNegativeBelowMax ==
    Trimmed /\ res.kind # "None" /\ seg_len < MAX_PAYLOAD_AND_CONTROL_LEN =>
        /\ overlap_new_len(seg, rcv.nxt, rcv.wnd) >= 0
        /\ overlap_new_len_lt(seg, rcv.nxt, rcv.wnd) >= 0

\* Sequence number x lies inside the window [rcv_nxt, rcv_nxt + rcv_wnd)
InWindow(x) == Offset(x, rcv.nxt) < rcv.wnd
\* At least one sequence number of the constructed segment lies inside the window
HasSeqInWindow == \E k \in 0 .. seg_len - 1 : InWindow(SeqAdd(seg.seq, k))
\* The segment starts before the window and ends after it
CoversWindow ==
    /\ ~InWindow(seg.seq)
    /\ Offset(seg_end, rcv.nxt) > rcv.wnd
    /\ HasSeqInWindow

\* C24 as claimed: for every segment with len > 0 and every window rcv_wnd > 0, if at
\* least one sequence number of the segment lies inside the window, a segment that
\* starts before rcv_nxt and ends after rcv_nxt + rcv_wnd included, overlap returns Some.
C24_AnyPartInsideAccepted ==
    Trimmed /\ seg_len > 0 /\ rcv.wnd > 0 /\ HasSeqInWindow => res.kind = "Some"
\* C24 amended: for len > 0 and rcv_wnd > 0, a segment with a sequence number inside
\* the window is returned as Some if its first sequence number lies inside the window
\* or its end seq + len lies in [rcv_nxt, rcv_nxt + rcv_wnd]; a segment that starts
\* before rcv_nxt and ends after rcv_nxt + rcv_wnd is rejected with None.
C24_EdgeInsideAccepted ==
    Trimmed /\ seg_len > 0 /\ rcv.wnd > 0 /\ HasSeqInWindow =>
        /\ InWindow(seg.seq) \/ Offset(seg_end, rcv.nxt) <= rcv.wnd => res.kind = "Some"
        /\ CoversWindow => res.kind = "None"
        /\ CoversWindow <=> (before(seg.seq, rcv.nxt) /\ after(seg_end, rcv_end))
\* a segment of five sequence numbers around a window of three is rejected
C24_Witness ==
    /\ Trimmed /\ CoversWindow /\ res.kind = "None"
    /\ seg_len = rcv.wnd + 2 /\ rcv.wnd = WindowSize_MAX /\ rcv.nxt = SeqAdd(seg.seq, 1)

\* The sequence number of the byte at position x of the caller's buffer, in a segment:
\* data byte i of the segment occupies seq + i + (1 if the segment has SYN else 0)
SeqOfByte(sg, x) ==
    SeqAdd(sg.seq, (x - sg.contents.data.lo) + (IF sg.contents.control = "SYN" THEN 1 ELSE 0))
\* The positions in the caller's buffer of the data bytes of a segment
BytesOf(sg) == sg.contents.data.lo .. sg.contents.data.hi - 1

\* C25: trimming preserves the sequence-number-to-byte mapping: when overlap returns
\* Some(r) for segment s, every data byte of r sits at the same absolute sequence
\* number as in s, and r contains exactly the data bytes of s whose sequence numbers
\* fall in [r.seq, r.seq + r.len).
C25_BytesKeepTheirSeq ==
    Returned =>
        /\ BytesOf(res.seg) \subseteq BytesOf(seg)
        /\ \A x \in BytesOf(res.seg) : SeqOfByte(res.seg, x) = SeqOfByte(seg, x)
        /\ BytesOf(res.seg) =
             {x \in BytesOf(seg) : Offset(SeqOfByte(seg, x), res.seg.seq) < res_len}
\* a SYN segment trimmed on the left: SYN and the first byte are dropped
C25_Witness ==
    /\ Returned /\ seg.contents.control = "SYN" /\ res.seg.contents.control = NoControl
    /\ res.seg.contents.data.lo = seg.contents.data.lo + 1 /\ res_len > 1
    /\ res.seg.seq = SeqAdd(seg.seq, 2)

\* The constructed segment lies entirely inside the window, read with the wraparound-safe
\* order (for a window that is not empty: an empty window has no seq with
\* rcv_nxt <= seq < rcv_nxt) and as offsets from rcv_nxt
InsideWindow ==
    \/ /\ rcv.wnd > 0
       /\ WrapLe(rcv.nxt, seg.seq) /\ WrapLt(seg.seq, rcv_end)
       /\ WrapLe(seg_end, rcv_end)
    \/ /\ Offset(seg.seq, rcv.nxt) < rcv.wnd
       /\ Offset(seg.seq, rcv.nxt) + seg_len <= rcv.wnd
    \/ seg_len = 0 /\ rcv.wnd = 0 /\ seg.seq = rcv.nxt

\* C27: a segment lying entirely inside the window is returned unchanged: if
\* rcv_nxt <= seq < rcv_nxt + rcv_wnd and seq + len <= rcv_nxt + rcv_wnd (or len = 0,
\* rcv_wnd = 0 and seq = rcv_nxt), overlap returns Some segment equal to the input in
\* seq, control and the complete data.
C27_InsideUnchanged ==
    Trimmed /\ InsideWindow =>
        /\ res.kind = "Some"
        /\ res.seg.seq = seg.seq
        /\ res.seg.contents.control = seg.contents.control
        /\ res.seg.contents.data = seg.contents.data
\* a FIN segment that fills the largest window exactly
C27_Witness ==
    /\ Returned /\ seg.contents.control = "FIN" /\ seg.seq = rcv.nxt
    /\ seg_len = rcv.wnd /\ rcv.wnd = WindowSize_MAX
    /\ res.seg.contents = seg.contents

\* The sequence number the FIN of the constructed segment occupies: seq + len - 1
FinSeq == SeqAdd(seg.seq, seg_len + SeqMod - 1)
\* C28: for an accepted FIN segment, the result carries FIN if and only if the FIN's own
\* sequence number seq + len - 1 lies inside the window, rcv_nxt <= seq+len-1 <
\* rcv_nxt + rcv_wnd; a FIN before rcv_nxt or at or after the right edge is dropped.
C28_FinKeptIffInside ==
    Trimmed /\ seg.contents.control = "FIN" /\ res.kind # "None" =>
        /\ (res.kind = "Some" /\ res.seg.contents.control = "FIN") <=> InWindow(FinSeq)
        /\ rcv.wnd > 0 =>
             ((res.kind = "Some" /\ res.seg.contents.control = "FIN")
                <=> (WrapLe(rcv.nxt, FinSeq) /\ WrapLt(FinSeq, rcv_end)))
        /\ res.kind = "Some" => res.seg.contents.control \in {"FIN", NoControl}
\* the FIN sits exactly at the right window edge and is dropped, the data before it kept
C28_Witness ==
    /\ Returned /\ seg.contents.control = "FIN" /\ FinSeq = rcv_end
    /\ res.seg.contents.control = NoControl /\ res_len = rcv.wnd /\ rcv.wnd > 1

\* The constructed segment and a segment, moved by c in the cyclic sequence space
Shifted(sg, c) == [sg EXCEPT !.seq = SeqAdd(@, c)]
\* overlap of the constructed segment after moving it and rcv_nxt by c
ShiftedOverlap(c) == overlap(Shifted(seg, c), SeqAdd(rcv.nxt, c), rcv.wnd)

\* C29: overlap is invariant under translation of the cyclic sequence space: for every
\* constant c, shifting the segment's seq and rcv_nxt by c modulo the size of the space
\* yields None iff the unshifted call yields None, and otherwise a result with the same
\* control and data and with seq shifted by c.  Every segment and window is the shift of
\* one whose segment has seq = 0, so the shifts of these by every c are all the cases.
C29_TranslationInvariant ==
    Trimmed /\ seg.seq = 0 =>
        \A c \in SeqNums :
            LET shifted == ShiftedOverlap(c)
            IN  /\ (shifted.kind = "None") <=> (res.kind = "None")
                /\ shifted.kind = res.kind
                /\ res.kind = "Some" => shifted.seg = Shifted(res.seg, c)
\* a trimmed segment that does not cross the wrap point, and its shift that does: the
\* shifted window and the shifted result both cross it
C29_Witness ==
    /\ Returned /\ seg.seq = 0 /\ res.seg.seq # seg.seq /\ res_len > 1
    /\ seg.seq < seg_end /\ rcv.nxt < rcv_end
    /\ \E c \in SeqNums :
          /\ SeqAdd(rcv_end, c) < SeqAdd(rcv.nxt, c)
          /\ SeqAdd(rcv.nxt, c) = SeqMod - 1
          /\ ShiftedOverlap(c).kind = "Some"
          /\ ShiftedOverlap(c).seg.seq = SeqMod - 1
          /\ ShiftedOverlap(c).seg.contents = res.seg.contents

\* A no-payload constructor has returned
BuiltBy(ctor) == pc = "built" /\ args.ctor = ctor
\* The constructed segment has this control, no data, and this sequence length
Carries(control, len) ==
    /\ seg.contents.control = control
    /\ seg.contents.data.hi - seg.contents.data.lo = 0
    /\ seg_len = len

\* C30: the no-payload constructors never truncate: new, with_options, ack, syn, syn_ack,
\* rst and rst_ack always obtain discarded = 0 from with_data_options, return the given
\* control unchanged with empty data, and yield sequence length 1 for syn and syn_ack and
\* 0 for ack, rst and rst_ack; rst and rst_ack advertise window 0.
C30_NoPayloadConstructors ==
    /\ pc = "built" => discarded = 0
    /\ BuiltBy("new") \/ BuiltBy("with_options") =>
          /\ Carries(args.control, IF args.control \in {"SYN", "FIN"} THEN 1 ELSE 0)
          /\ seg.seq = args.seq /\ seg.ack = args.ack /\ seg.wnd = args.wnd
    /\ BuiltBy("new") => seg.options = [mss |-> None, window_scale |-> None]
    /\ BuiltBy("with_options") => seg.options = args.options
    /\ BuiltBy("ack") =>
          /\ Carries(NoControl, 0)
          /\ seg.seq = args.seq /\ seg.ack = Some(args.ack) /\ seg.wnd = args.wnd
    /\ BuiltBy("syn") =>
          /\ Carries("SYN", 1)
          /\ seg.seq = args.seq /\ seg.ack = None /\ seg.wnd = args.wnd
          /\ seg.options = args.options
    /\ BuiltBy("syn_ack") =>
          /\ Carries("SYN", 1)
          /\ seg.seq = args.seq /\ seg.ack = Some(args.ack) /\ seg.wnd = args.wnd
          /\ seg.options = args.options
    /\ BuiltBy("rst") =>
          /\ Carries("RST", 0)
          /\ seg.seq = args.seq /\ seg.ack = None /\ seg.wnd = 0
    /\ BuiltBy("rst_ack") =>
          /\ Carries("RST", 0)
          /\ seg.seq = args.seq /\ seg.ack = Some(args.ack) /\ seg.wnd = 0
\* a RST-ACK at the top of the sequence space
C30_Witness ==
    /\ BuiltBy("rst_ack") /\ args.seq = U32_MAX /\ args.ack = U32_MAX
    /\ discarded = 0 /\ seg.wnd = 0 /\ seg_len = 0
====
